---- MODULE Spec2Model ----
(***************************************************************************)
(* A model of the XML formatter of vs-code-xml-format: the XmlFormatter    *)
(* class (constructor, format, _formatParsedXml and its helpers) of        *)
(* src/unnamed/part_000, lines 146-435 (the synchronous build) and lines   *)
(* 1-145 (the promise-based build).                                        *)
(*                                                                         *)
(* Text is a sequence of one-character strings.  A JavaScript value that   *)
(* may be `undefined` is a sequence of length 0 (undefined) or 1 (the      *)
(* value), so that '' (Some(<<>>)) and undefined (<<>>) stay distinct.     *)
(* A parsed object is a record with the six properties the formatter       *)
(* probes (name, attributes, content, children, declaration, root); a      *)
(* property the object does not have is Undefined.                          *)
(***************************************************************************)
EXTENDS Integers, Sequences, FiniteSets, TLC

VARIABLES
    variant,             \* which build runs: "sync" or "async"
    _document,           \* XmlFormatter._document: the text getText() returns
    range,               \* the range argument of format (Undefined: whole document)
    options,             \* the caller-owned vscode.FormattingOptions object
    _options,            \* XmlFormatter._options
    _lineBreakCharacter, \* XmlFormatter._lineBreakCharacter
    pc,                  \* position of the request
    parsedXml,           \* the value _parseXmlString returned
    edits,               \* what format returned / resolved with
    outcome,             \* how format ended: "returned", "threw", "resolved", "rejected"
    messages,            \* number of vscode.window.showErrorMessage calls of the request
    pass,                \* number of format requests made on this document so far
    tree,                \* the tree handed to _formatParsedXml directly
    rendered,            \* its rendering
    reparsed             \* the parse of that rendering

vars == <<variant, _document, range, options, _options, _lineBreakCharacter, pc,
          parsedXml, edits, outcome, messages, pass, tree, rendered, reparsed>>

----------------------------------------------------------------------------
(* JavaScript values *)

Undefined == <<>>

Some(v) == <<v>>

IsDefined(o) == Len(o) = 1

\* `${v}` of a string property that may be undefined
TemplateString(o) ==
    IF IsDefined(o) THEN o[1] ELSE <<"u", "n", "d", "e", "f", "i", "n", "e", "d">>

CR == "\r"

LF == "\n"

TAB == "\t"

SPACE == " "

\* Array.prototype.join
RECURSIVE Join(_, _)
Join(strs, sep) ==
    IF Len(strs) = 0 THEN <<>>
    ELSE IF Len(strs) = 1 THEN strs[1]
    ELSE strs[1] \o sep \o Join(Tail(strs), sep)

\* String.prototype.slice(0, -1)
SliceDropLast(s) == IF Len(s) = 0 THEN <<>> ELSE SubSeq(s, 1, Len(s) - 1)

Max(a, b) == IF a > b THEN a ELSE b

\* An object with none of the six properties.
EmptyObject ==
    [name |-> Undefined, attributes |-> Undefined, content |-> Undefined,
     children |-> Undefined, declaration |-> Undefined, root |-> Undefined]

----------------------------------------------------------------------------
(* vscode.FormattingOptions as the caller may supply it: insertSpaces is    *)
(* "true", "false" or "undefined"; tabSize is a number, NaN, a string or   *)
(* undefined.                                                              *)

Num(n) == [type |-> "number", nan |-> FALSE, val |-> n]

NaN == [type |-> "number", nan |-> TRUE, val |-> 0]

NotANumber(t) == [type |-> t, nan |-> TRUE, val |-> 0]

DefaultTabSize == 4

\* constructor: this._options after the constructor body has run.
NormalizedOptions(opts) ==
    LET o1 == IF IsDefined(opts) THEN opts[1]
              ELSE [insertSpaces |-> "false", tabSize |-> Num(DefaultTabSize)]
        o2 == IF o1.insertSpaces = "undefined"
              THEN [insertSpaces |-> "false", tabSize |-> Num(DefaultTabSize)]
              ELSE o1
        o3 == IF o2.tabSize.type # "number" \/ o2.tabSize.nan
              THEN [o2 EXCEPT !.tabSize = Num(DefaultTabSize)]
              ELSE o2
    IN  [o3 EXCEPT !.tabSize = Num(Max(0, DefaultTabSize))]

----------------------------------------------------------------------------
(* Line breaks and indentation *)

\* text.match(re) without the g flag: null, or an array holding the first
\* match only, so `(text.match(re) || []).length` is 0 or 1.
MatchLength(found) == IF found THEN 1 ELSE 0

\* /\r\n/ matches somewhere in text
MatchesCRLF(text) ==
    \E i \in 1..(Len(text) - 1) : text[i] = CR /\ text[i + 1] = LF

\* /[^\r]\n/ matches somewhere in text
MatchesLFOnly(text) ==
    \E i \in 1..(Len(text) - 1) : text[i] # CR /\ text[i + 1] = LF

_determineLinebreakCharacter(text) ==
    LET crlfCount == MatchLength(MatchesCRLF(text))
        lfCount == MatchLength(MatchesLFOnly(text))
    IN  IF crlfCount > lfCount THEN <<CR, LF>> ELSE <<LF>>

\* `this` is the record of the formatter's fields.
_getLineBreakCharacters(this) ==
    IF IsDefined(this._lineBreakCharacter) /\ this._lineBreakCharacter[1] # <<>>
    THEN this._lineBreakCharacter[1]
    ELSE _determineLinebreakCharacter(this._document)

_getIndentCharacters(this) ==
    IF this._options.insertSpaces = "true"
    THEN LET n == IF this._options.tabSize.nan THEN 0 ELSE this._options.tabSize.val
         IN  [i \in 1..n |-> SPACE]
    ELSE <<TAB>>

RECURSIVE Repeat(_, _)
Repeat(s, n) == IF n <= 0 THEN <<>> ELSE s \o Repeat(s, n - 1)

\* mutant: the loop runs once too often (i <= indentDepth)
_getIndentString_OneTooMany(this, indentDepth) ==
    Repeat(_getIndentCharacters(this), indentDepth + 1)

_getIndentString(this, indentDepth) ==
    Repeat(_getIndentCharacters(this), indentDepth)

\* mutant: the indent depth defaults to one instead of zero
_getLineBreakWithIndent_Indented(this, indentDepth) ==
    _getLineBreakCharacters(this) \o _getIndentString(this, Max(1, indentDepth))

_getLineBreakWithIndent(this, indentDepth) ==
    _getLineBreakCharacters(this) \o _getIndentString(this, indentDepth)

----------------------------------------------------------------------------
(* Rendering *)

\* An attribute object is a sequence of <<name, value>> pairs in insertion
\* order.
Digits == <<"0", "1", "2", "3", "4", "5", "6", "7", "8", "9">>

IsDigit(c) == \E i \in 1..10 : Digits[i] = c

DigitValue(c) == (CHOOSE i \in 1..10 : Digits[i] = c) - 1

RECURSIVE NumericValue(_)
NumericValue(name) ==
    IF Len(name) = 0 THEN 0
    ELSE NumericValue(SubSeq(name, 1, Len(name) - 1)) * 10 + DigitValue(name[Len(name)])

\* a property name that is an array index: a canonical decimal numeral (the
\* names drawn here have fewer than ten digits, so all are below 2^32 - 1)
IsArrayIndex(name) ==
    /\ Len(name) > 0 /\ Len(name) < 10
    /\ \A i \in 1..Len(name) : IsDigit(name[i])
    /\ (name[1] # "0" \/ Len(name) = 1)

RECURSIVE AscendingIndices(_)
AscendingIndices(pairs) ==
    IF Len(pairs) = 0 THEN <<>>
    ELSE LET m == CHOOSE i \in 1..Len(pairs) : \A j \in 1..Len(pairs) :
                      NumericValue(pairs[i][1]) <= NumericValue(pairs[j][1])
         IN  <<pairs[m]>>
             \o AscendingIndices(SubSeq(pairs, 1, m - 1) \o SubSeq(pairs, m + 1, Len(pairs)))

\* `for (attrName in attrObject)` visits the array-index names first, in
\* ascending numeric order, and then the other names in insertion order.
ForInOrder(pairs) ==
    AscendingIndices(SelectSeq(pairs, LAMBDA p : IsArrayIndex(p[1])))
    \o SelectSeq(pairs, LAMBDA p : ~IsArrayIndex(p[1]))

RECURSIVE AttrPairs(_)
AttrPairs(pairs) ==
    IF Len(pairs) = 0 THEN <<>>
    ELSE pairs[1][1] \o <<"=", "\"">> \o pairs[1][2] \o <<"\"", SPACE>>
         \o AttrPairs(Tail(pairs))

_parsedAttrObjectToAtrrString(attrObject) ==
    LET xml == IF IsDefined(attrObject) THEN AttrPairs(ForInOrder(attrObject[1]))
               ELSE <<>>
        led == IF Len(xml) > 0 THEN <<SPACE>> \o xml ELSE xml
    IN  SliceDropLast(led)

HasContent(node) == IsDefined(node.content) /\ Len(node.content[1]) > 0

HasChildren(node) == IsDefined(node.children) /\ Len(node.children[1]) > 0

\* mutant: the content case of the switch is lost
_isSelfClosingNode_IgnoringContent(node) == ~HasChildren(node)

_isSelfClosingNode(node) ==
    IF HasContent(node) \/ HasChildren(node) THEN FALSE ELSE TRUE

RECURSIVE _formatParsedXml(_, _, _)
_formatParsedXml(this, xmlNode, indentDepth) ==
    IF IsDefined(xmlNode.declaration) \/ IsDefined(xmlNode.root)
    THEN (IF IsDefined(xmlNode.declaration)
          THEN <<"<", "?", "x", "m", "l">>
               \o _parsedAttrObjectToAtrrString(xmlNode.declaration[1].attributes)
               \o <<"?", ">">> \o _getLineBreakWithIndent(this, 0)
          ELSE <<>>)
         \o
         (IF IsDefined(xmlNode.root)
          THEN _formatParsedXml(this, xmlNode.root[1], 0)
          ELSE <<>>)
    ELSE LET node == xmlNode
             open == <<"<">> \o TemplateString(node.name)
                     \o _parsedAttrObjectToAtrrString(node.attributes)
         IN  IF _isSelfClosingNode(node)
             THEN open \o <<SPACE, "/", ">">>
             ELSE IF HasChildren(node)
             THEN open \o <<">">> \o _getLineBreakWithIndent(this, indentDepth + 1)
                  \o Join([i \in 1..Len(node.children[1]) |->
                              _formatParsedXml(this, node.children[1][i], indentDepth + 1)],
                          _getLineBreakWithIndent(this, indentDepth + 1))
                  \o _getLineBreakWithIndent(this, indentDepth)
                  \o <<"<", "/">> \o TemplateString(node.name) \o <<">">>
             ELSE IF HasContent(node)
             THEN open \o <<">">> \o node.content[1]
                  \o <<"<", "/">> \o TemplateString(node.name) \o <<">">>
             ELSE open

----------------------------------------------------------------------------
(* The parser behind _parseXmlString: require('xml-parser')(xml).  It is a  *)
(* recursive-descent parser that consumes a prefix of the remaining text   *)
(* with each regular expression it matches; it never reports an error.     *)

Whitespace == {SPACE, TAB, LF, CR}

WordChars ==
    {"a", "b", "c", "d", "e", "f", "g", "h", "i", "j", "k", "l", "m", "n", "o",
     "p", "q", "r", "s", "t", "u", "v", "w", "x", "y", "z", "_",
     "0", "1", "2", "3", "4", "5", "6", "7", "8", "9"}

\* [\w-:.]
TagNameChars == WordChars \cup {"-", ":", "."}

\* [\w:-]
AttrNameChars == WordChars \cup {":", "-"}

Drop(s, n) == SubSeq(s, n + 1, Len(s))

StartsWith(s, p) == Len(s) >= Len(p) /\ SubSeq(s, 1, Len(p)) = p

\* length of the longest prefix of s made of characters of class
RECURSIVE SpanOf(_, _)
SpanOf(s, class) ==
    IF Len(s) = 0 \/ s[1] \notin class THEN 0 ELSE 1 + SpanOf(Tail(s), class)

\* length of the longest prefix of s free of the characters of stop
RECURSIVE SpanUntil(_, _)
SpanUntil(s, stop) ==
    IF Len(s) = 0 \/ s[1] \in stop THEN 0 ELSE 1 + SpanUntil(Tail(s), stop)

\* String.prototype.trim
RECURSIVE TrimRight(_)
TrimRight(s) ==
    IF Len(s) > 0 /\ s[Len(s)] \in Whitespace THEN TrimRight(SubSeq(s, 1, Len(s) - 1))
    ELSE s

Trim(s) == TrimRight(Drop(s, SpanOf(s, Whitespace)))

\* xml.replace(/<!--[\s\S]*?-->/g, ''): each <!-- is cut out up to the first
\* --> that follows it
RECURSIVE StripComments(_)
StripComments(s) ==
    LET At(p, i) == i + Len(p) - 1 <= Len(s) /\ SubSeq(s, i, i + Len(p) - 1) = p
        opens == {i \in 1..Len(s) :
                     /\ At(<<"<", "!", "-", "-">>, i)
                     /\ \E j \in (i + 4)..Len(s) : At(<<"-", "-", ">">>, j)}
    IN  IF opens = {} THEN s
        ELSE LET i == CHOOSE o \in opens : \A q \in opens : o <= q
                 closes == {j \in (i + 4)..Len(s) : At(<<"-", "-", ">">>, j)}
                 j == CHOOSE c \in closes : \A q \in closes : c <= q
             IN  SubSeq(s, 1, i - 1) \o StripComments(Drop(s, j + 2))

\* val.replace(/^['"]|['"]$/g, '')
strip(val) ==
    LET v1 == IF Len(val) > 0 /\ val[1] \in {"'", "\""} THEN Tail(val) ELSE val
    IN  IF Len(v1) > 0 /\ v1[Len(v1)] \in {"'", "\""}
        THEN SubSeq(v1, 1, Len(v1) - 1) ELSE v1

\* F applied to the value of e: e is evaluated once, as a statement that
\* assigns a local variable is.
Bind(e, F(_)) == CHOOSE r \in {F(v) : v \in {e}} : TRUE

\* ("[^"]*"|'[^']*'|\w+) tried at the start of t: the length of the match
ValueMatchLength(t) ==
    LET quoted(q) == Len(t) > 0 /\ t[1] = q /\ \E j \in 2..Len(t) : t[j] = q
    IN  IF quoted("\"") THEN SpanUntil(Tail(t), {"\""}) + 2
        ELSE IF quoted("'") THEN SpanUntil(Tail(t), {"'"}) + 2
        ELSE SpanOf(t, WordChars)

\* /([\w:-]+)\s*=\s*("[^"]*"|'[^']*'|\w+)\s*/ tried at the start of s:
\* the length of the match (0: no match) with the name and the raw value.
AttributeMatchAt(s) ==
    LET NoMatch == [len |-> 0, name |-> <<>>, value |-> <<>>]
    IN  Bind(SpanOf(s, AttrNameChars), LAMBDA nameLen :
        Bind(nameLen + SpanOf(Drop(s, nameLen), Whitespace), LAMBDA eq :
        IF nameLen = 0 \/ eq >= Len(s) \/ s[eq + 1] # "=" THEN NoMatch
        ELSE
        Bind(eq + 1 + SpanOf(Drop(s, eq + 1), Whitespace), LAMBDA v :
        Bind(ValueMatchLength(Drop(s, v)), LAMBDA valLen :
        IF valLen = 0 THEN NoMatch
        ELSE [len |-> v + valLen + SpanOf(Drop(s, v + valLen), Whitespace),
              name |-> SubSeq(s, 1, nameLen),
              value |-> SubSeq(s, v + 1, v + valLen)]))))

\* attribute(): the expression is not anchored, so the first match anywhere
\* in the remaining text counts, and match() then cuts m[0].length characters
\* off the front.
attribute(s) ==
    Bind({i \in 1..Len(s) : AttributeMatchAt(Drop(s, i - 1)).len > 0}, LAMBDA hits :
    IF hits = {} THEN [found |-> FALSE, name |-> <<>>, value |-> <<>>, rest |-> s]
    ELSE Bind(AttributeMatchAt(Drop(s, (CHOOSE h \in hits : \A g \in hits : h <= g) - 1)),
              LAMBDA m : [found |-> TRUE, name |-> m.name, value |-> strip(m.value),
                          rest |-> Drop(s, m.len)]))

\* node.attributes[attr.name] = attr.value
PutAttribute(pairs, name, value) ==
    IF \E i \in 1..Len(pairs) : pairs[i][1] = name
    THEN [i \in 1..Len(pairs) |->
             IF pairs[i][1] = name THEN <<name, value>> ELSE pairs[i]]
    ELSE Append(pairs, <<name, value>>)

\* the attribute loops of declaration() and tag(): `stops` are the prefixes
\* that end the loop; failed tells that attribute() found nothing.
RECURSIVE attributes(_, _, _)
attributes(s, pairs, stops) ==
    IF Len(s) = 0 \/ \E p \in stops : StartsWith(s, p)
    THEN [pairs |-> pairs, rest |-> s, failed |-> FALSE]
    ELSE Bind(attribute(s), LAMBDA attr :
         IF ~attr.found THEN [pairs |-> pairs, rest |-> s, failed |-> TRUE]
         ELSE Bind(PutAttribute(pairs, attr.name, attr.value), LAMBDA put :
              attributes(attr.rest, put, stops)))

\* match(/\??>\s*/) where the text is empty or starts with > or ?>
MatchTagEnd(s) ==
    LET n == IF StartsWith(s, <<"?", ">">>) THEN 2
             ELSE IF StartsWith(s, <<">">>) THEN 1 ELSE 0
    IN  IF n = 0 THEN s ELSE Drop(s, n + SpanOf(Drop(s, n), Whitespace))

\* declaration(): match(/^<\?xml\s*/), the attribute loop, match(/\?>\s*/)
declaration(s) ==
    IF ~StartsWith(s, <<"<", "?", "x", "m", "l">>)
    THEN [node |-> Undefined, rest |-> s]
    ELSE Bind(attributes(Drop(s, 5 + SpanOf(Drop(s, 5), Whitespace)), <<>>,
                         {<<"?", ">">>}),
              LAMBDA as :
                 [node |-> Some([EmptyObject EXCEPT !.attributes = Some(as.pairs)]),
                  rest |-> IF ~as.failed /\ StartsWith(as.rest, <<"?", ">">>)
                           THEN MatchTagEnd(as.rest) ELSE as.rest])

\* content(): match(/^([^<]*)/)
content(s) == SubSeq(s, 1, SpanUntil(s, {"<"}))

\* match(/^<\/[\w-:.]+>\s*/)
MatchClosing(s) ==
    Bind(SpanOf(Drop(s, 2), TagNameChars), LAMBDA n :
    IF StartsWith(s, <<"<", "/">>) /\ n > 0 /\ StartsWith(Drop(s, 2 + n), <<">">>)
    THEN Drop(s, 3 + n + SpanOf(Drop(s, 3 + n), Whitespace))
    ELSE s)

\* tag(): match(/^<([\w-:.]+)\s*/), the attribute loop, the self-closing
\* end, or content, children and the closing tag
RECURSIVE tag(_)
RECURSIVE tagChildren(_, _)
tag(s) ==
    Bind(SpanOf(Drop(s, 1), TagNameChars), LAMBDA nameLen :
    IF ~(StartsWith(s, <<"<">>) /\ nameLen > 0)
    THEN [node |-> Undefined, rest |-> s]
    ELSE
    Bind(attributes(Drop(s, 1 + nameLen + SpanOf(Drop(s, 1 + nameLen), Whitespace)),
                    <<>>, {<<">">>, <<"?", ">">>, <<"/", ">">>}),
         LAMBDA as :
    Bind([EmptyObject EXCEPT !.name = Some(SubSeq(s, 2, 1 + nameLen)),
                             !.attributes = Some(as.pairs),
                             !.children = Some(<<>>)],
         LAMBDA node :
    Bind(SpanOf(as.rest, Whitespace), LAMBDA ws :
    IF as.failed THEN [node |-> Some(node), rest |-> as.rest]
    ELSE IF StartsWith(Drop(as.rest, ws), <<"/", ">">>)
    THEN [node |-> Some(node),
          rest |-> Drop(as.rest, ws + 2 + SpanOf(Drop(as.rest, ws + 2), Whitespace))]
    ELSE
    Bind(MatchTagEnd(as.rest), LAMBDA afterOpen :
    Bind(content(afterOpen), LAMBDA text :
    Bind(tagChildren(Drop(afterOpen, Len(text)), <<>>), LAMBDA kids :
        [node |-> Some([node EXCEPT !.content = Some(text),
                                    !.children = Some(kids.nodes)]),
         rest |-> MatchClosing(kids.rest)])))))))

\* while (child = tag()) node.children.push(child)
tagChildren(s, nodes) ==
    Bind(tag(s), LAMBDA child :
    IF ~IsDefined(child.node) THEN [nodes |-> nodes, rest |-> s]
    ELSE tagChildren(child.rest, Append(nodes, child.node[1])))

\* parse(xml): document() = { declaration: declaration(), root: tag() }
parse(xml) ==
    Bind(StripComments(Trim(xml)), LAMBDA s0 :
    Bind(declaration(s0), LAMBDA d :
    Bind(tag(d.rest), LAMBDA r :
        [EmptyObject EXCEPT !.declaration = d.node, !.root = r.node])))

_parseXmlString(xml) == Some(parse(xml))

----------------------------------------------------------------------------
(* vscode.TextDocument: lineCount and lineAt(lineCount - 1).range.end       *)

LineBreakEnds(text) ==
    {i \in 1..Len(text) :
        \/ text[i] = LF
        \/ text[i] = CR /\ ~(i < Len(text) /\ text[i + 1] = LF)}

lineCount(text) == Cardinality(LineBreakEnds(text)) + 1

LastLineEndCharacter(text) ==
    LET ends == LineBreakEnds(text)
    IN  IF ends = {} THEN Len(text)
        ELSE Len(text) - (CHOOSE e \in ends : \A f \in ends : f <= e)

\* new vscode.Range(0, 0, lineCount, lineAt(lineCount - 1).range.end.character)
WholeDocumentRange(text) ==
    [startLine |-> 0, startCharacter |-> 0,
     endLine |-> lineCount(text), endCharacter |-> LastLineEndCharacter(text)]

\* offset of the first character of a line
LineStartOffset(text, line) ==
    LET ends == LineBreakEnds(text)
    IN  IF line = 0 THEN 0
        ELSE CHOOSE e \in ends : Cardinality({f \in ends : f <= e}) = line

\* offset behind the last character of a line, its line break not counted
LineEndOffset(text, line) ==
    IF line >= lineCount(text) - 1 THEN Len(text)
    ELSE LET e == LineStartOffset(text, line + 1)
         IN  IF text[e] = LF /\ e > 1 /\ text[e - 1] = CR THEN e - 2 ELSE e - 1

\* offsetAt(new vscode.Position(line, character)): a position outside the
\* document is moved to the nearest one inside it
offsetAt(text, line, character) ==
    IF line >= lineCount(text) THEN Len(text)
    ELSE LET at == LineStartOffset(text, line) + character
             end == LineEndOffset(text, line)
         IN  IF at > end THEN end ELSE at

\* document.getText(range)
getText(text, r) ==
    SubSeq(text, offsetAt(text, r.startLine, r.startCharacter) + 1,
                 offsetAt(text, r.endLine, r.endCharacter))

\* the editor applies a vscode.TextEdit: the text of edit.range is replaced
\* by edit.newText
ApplyEdit(text, edit) ==
    SubSeq(text, 1, offsetAt(text, edit.range.startLine, edit.range.startCharacter))
    \o edit.newText
    \o SubSeq(text, offsetAt(text, edit.range.endLine, edit.range.endCharacter) + 1,
              Len(text))

----------------------------------------------------------------------------
(* Bounds and the inputs drawn within them *)

MaxTreeNodes == 3

MaxDocNodes == 2

MaxTabSize == 3

MaxPasses == 2

MaxAttributes == 2

Element(name, attrs, text, kids) ==
    [EmptyObject EXCEPT !.name = Some(name), !.attributes = Some(attrs),
                        !.content = Some(text), !.children = Some(kids)]

\* name, attributes and content of the generated nodes
Labels ==
    { [name |-> <<"a">>, attributes |-> <<>>, content |-> <<>>],
      [name |-> <<"b">>, attributes |-> << <<<<"k">>, <<"1">>>> >>, content |-> <<"x">>],
      [name |-> <<"c", "d">>,
       attributes |-> << <<<<"k">>, <<"1">>>>, <<<<"j">>, <<>>>> >>,
       content |-> <<"y", SPACE, "z">>] }

\* the labels of the nodes of the generated documents
DocumentLabels == {l \in Labels : l.name # <<"b">>}

\* the ordered trees of exactly n nodes, and the child lists of m nodes in all
RECURSIVE TreesOfSize(_, _)
RECURSIVE ForestsOfSize(_, _)
TreesOfSize(n, labels) ==
    IF n <= 0 THEN {}
    ELSE {Element(l.name, l.attributes, l.content, f) :
             l \in labels, f \in ForestsOfSize(n - 1, labels)}

ForestsOfSize(m, labels) ==
    IF m = 0 THEN {<<>>}
    ELSE UNION {{<<t>> \o f : t \in TreesOfSize(k, labels),
                              f \in ForestsOfSize(m - k, labels)} :
                   k \in 1..m}

TreesUpTo(n, labels) == UNION {TreesOfSize(k, labels) : k \in 1..n}

DeclarationNodes ==
    { [EmptyObject EXCEPT !.attributes = Some(<<>>)],
      [EmptyObject EXCEPT !.attributes =
          Some(<< <<<<"v">>, <<"1", ".", "0">>>>, <<<<"e">>, <<"u">>>> >>)] }

\* what _formatParsedXml is handed: a bare element, or { declaration, root }
ParsedValues ==
    TreesUpTo(MaxTreeNodes, Labels)
    \cup {[EmptyObject EXCEPT !.declaration = Some(d), !.root = Some(t)] :
             d \in DeclarationNodes, t \in TreesUpTo(MaxTreeNodes, Labels)}

TabSizeValues ==
    {Num(n) : n \in (1..MaxTabSize) \cup {DefaultTabSize}}
    \cup {NaN, NotANumber("string")}

OptionsObjects ==
    {Undefined}
    \cup {Some([insertSpaces |-> i, tabSize |-> t]) :
             i \in {"true", "false", "undefined"}, t \in TabSizeValues}

\* unformatted source text of a tree: sep is written between the tags
RECURSIVE WriteAttributes(_)
WriteAttributes(pairs) ==
    IF Len(pairs) = 0 THEN <<>>
    ELSE <<SPACE>> \o pairs[1][1] \o <<"=", "\"">> \o pairs[1][2] \o <<"\"">>
         \o WriteAttributes(Tail(pairs))

RECURSIVE WriteElement(_, _)
WriteElement(node, sep) ==
    LET open == <<"<">> \o node.name[1] \o WriteAttributes(node.attributes[1])
        kids == node.children[1]
    IN  IF Len(node.content[1]) = 0 /\ Len(kids) = 0 THEN open \o <<"/", ">">>
        ELSE open \o <<">">> \o node.content[1]
             \o Join([i \in 1..Len(kids) |-> sep \o WriteElement(kids[i], sep)], <<>>)
             \o (IF Len(kids) > 0 THEN sep ELSE <<>>)
             \o <<"<", "/">> \o node.name[1] \o <<">">>

WriteDocument(decl, root, sep, pad) ==
    (IF IsDefined(decl)
     THEN <<"<", "?", "x", "m", "l">> \o WriteAttributes(decl[1].attributes[1])
          \o <<"?", ">">> \o sep
     ELSE <<>>)
    \o WriteElement(root, sep) \o pad

\* <<separator between tags, text after the root element>>
WritingStyles ==
    { <<<<>>, <<>>>>,
      <<<<LF>>, <<>>>>,
      <<<<CR, LF>>, <<>>>>,
      <<<<>>, <<CR, LF, CR, LF, CR, LF, LF>>>>,
      <<<<>>, <<CR, LF, LF, LF, LF>>>> }

SpecialDocuments ==
    { <<>>,
      <<SPACE, LF>>,
      <<"<", "a", ">", "<", "b", ">", "<", "/", "a", ">">>,
      <<"<", "?", "x", "m", "l", SPACE, "v", "=", "\"", "1", "\"", "?", ">">>,
      <<"<", "a", ">", "<", "b", "/", ">", "<", "c", "/", ">", "<", "/", "a", ">">>,
      <<"<", "a", SPACE, "k", "=", "'", "\"", "'", "/", ">">> }

Documents ==
    SpecialDocuments
    \cup {WriteDocument(d, t, w[1], w[2]) :
             d \in {Undefined} \cup {Some(n) : n \in DeclarationNodes},
             t \in TreesUpTo(MaxDocNodes, DocumentLabels), w \in WritingStyles}

Ranges ==
    {Undefined,
     Some([startLine |-> 0, startCharacter |-> 0, endLine |-> 0, endCharacter |-> 1]),
     Some([startLine |-> 1, startCharacter |-> 0, endLine |-> 1, endCharacter |-> 4])}

\* a call may exhaust the JavaScript call stack (a RangeError), depending on
\* the stack the editor calls the provider with: in the parser, in the
\* renderer, or nowhere.
Faults == {"none", "parse", "render"}

----------------------------------------------------------------------------
(* The formatter *)

This ==
    [_document |-> _document, _options |-> _options[1],
     _lineBreakCharacter |-> _lineBreakCharacter]

\* whether rendering xmlNode calls _getLineBreakCharacters
CallsGetLineBreak(xmlNode) ==
    \/ IsDefined(xmlNode.declaration)
    \/ IsDefined(xmlNode.root) /\ HasChildren(xmlNode.root[1])
    \/ ~IsDefined(xmlNode.root) /\ HasChildren(xmlNode)

Init ==
    /\ variant \in {"sync", "async"}
    /\ _document \in Documents
    /\ range \in Ranges
    /\ options \in OptionsObjects
    /\ _options = Undefined
    /\ _lineBreakCharacter = Undefined
    /\ pc = "idle"
    /\ parsedXml = Undefined
    /\ edits = Undefined
    /\ outcome = "none"
    /\ messages = 0
    /\ pass = 0
    /\ tree = Undefined
    /\ rendered = <<>>
    /\ reparsed = Undefined

\* new XmlFormatter(document, options): this._options is the caller's object
\* when one is given, so the assignments change the caller's object too.
Construct ==
    /\ pc = "idle"
    /\ _options' = Some(NormalizedOptions(options))
    /\ options' = IF IsDefined(options) THEN _options' ELSE options
    /\ _lineBreakCharacter' = Undefined
    /\ pc' = "constructed"
    /\ UNCHANGED <<variant, _document, range, parsedXml, edits, outcome, messages,
                   pass, tree, rendered, reparsed>>

\* format(range) of the synchronous build
FormatSync ==
    /\ pc = "constructed"
    /\ variant = "sync"
    /\ ~IsDefined(tree)
    /\ \E fault \in Faults :
          LET r == IF IsDefined(range) THEN range[1] ELSE WholeDocumentRange(_document)
              parsed == _parseXmlString(_document)
              formattedXml == _formatParsedXml(This, parsed[1], 0)
          IN  IF fault = "parse"
              THEN /\ parsedXml' = Undefined
                   /\ edits' = Undefined
                   /\ outcome' = "threw"
                   /\ messages' = 0
                   /\ UNCHANGED _lineBreakCharacter
              ELSE /\ parsedXml' = parsed
                   /\ outcome' = "returned"
                   /\ IF IsDefined(parsed)
                      THEN IF fault = "render"
                           THEN /\ messages' = 1
                                /\ edits' = Undefined
                                /\ UNCHANGED _lineBreakCharacter
                           ELSE /\ messages' = 0
                                /\ edits' = Some(<<[range |-> r, newText |-> formattedXml]>>)
                                /\ _lineBreakCharacter' =
                                      IF CallsGetLineBreak(parsed[1])
                                      THEN Some(_getLineBreakCharacters(This))
                                      ELSE _lineBreakCharacter
                      ELSE /\ messages' = 1
                           /\ edits' = Undefined
                           /\ UNCHANGED _lineBreakCharacter
    /\ pc' = "done"
    /\ UNCHANGED <<variant, _document, range, options, _options, pass, tree, rendered,
                   reparsed>>

\* xml.Compiler.formatXmlString(text) of tsxml.js: a promise that is resolved
\* with the formatted text, or rejected when the text has no root element or
\* the compiler fails.
formatXmlString(this, text, fault) ==
    LET parsed == parse(text)
    IN  IF fault # "none" \/ ~IsDefined(parsed.root)
        THEN [resolved |-> FALSE, formattedXml |-> <<>>]
        ELSE [resolved |-> TRUE, formattedXml |-> _formatParsedXml(this, parsed, 0)]

\* format(range) of the promise-based build: the executor and the settling of
\* the promise formatXmlString returns
FormatAsync ==
    /\ pc = "constructed"
    /\ variant = "async"
    /\ ~IsDefined(tree)
    /\ \E fault \in Faults :
          LET r == IF IsDefined(range) THEN range[1] ELSE WholeDocumentRange(_document)
              formattingOpts == [indentChar |-> _getLineBreakCharacters(This),
                                 newlineChar |-> _getIndentCharacters(This)]
              settled == formatXmlString(This, _document, fault)
          IN  /\ _lineBreakCharacter' = Some(formattingOpts.indentChar)
              /\ IF settled.resolved
                 THEN /\ edits' = Some(<<[range |-> r, newText |-> settled.formattedXml]>>)
                      /\ outcome' = "resolved"
                      /\ messages' = 0
                 ELSE /\ edits' = Undefined
                      /\ outcome' = "rejected"
                      /\ messages' = 1
    /\ pc' = "done"
    /\ UNCHANGED <<variant, _document, range, options, _options, parsedXml, pass, tree,
                   rendered, reparsed>>

\* _formatParsedXml(tree) called on a constructed formatter
RenderTree ==
    /\ pc = "constructed"
    /\ IsDefined(tree)
    /\ rendered' = _formatParsedXml(This, tree[1], 0)
    /\ _lineBreakCharacter' =
          IF CallsGetLineBreak(tree[1]) THEN Some(_getLineBreakCharacters(This))
          ELSE _lineBreakCharacter
    /\ pc' = "rendered"
    /\ UNCHANGED <<variant, _document, range, options, _options, parsedXml, edits,
                   outcome, messages, pass, tree, reparsed>>

\* _parseXmlString(rendered)
ParseRendered ==
    /\ pc = "rendered"
    /\ reparsed' = _parseXmlString(rendered)
    /\ pc' = "reparsed"
    /\ UNCHANGED <<variant, _document, range, options, _options, _lineBreakCharacter,
                   parsedXml, edits, outcome, messages, pass, tree, rendered>>

\* the editor applies the edit of a whole-document request and the user
\* formats the document again, with the same options object
Reformat ==
    /\ pc = "done"
    /\ IsDefined(edits)
    /\ ~IsDefined(range)
    /\ pass < MaxPasses
    /\ _document' = edits[1][1].newText
    /\ pass' = pass + 1
    /\ pc' = "idle"
    /\ parsedXml' = Undefined
    /\ edits' = Undefined
    /\ outcome' = "none"
    /\ messages' = 0
    /\ UNCHANGED <<variant, range, options, _options, _lineBreakCharacter, tree,
                   rendered, reparsed>>

Next == Construct \/ FormatSync \/ FormatAsync \/ Reformat

Spec == Init /\ [][Next]_vars

\* The renderer applied to generated trees, and its output parsed again.
TreeDocuments ==
    { <<"<", "a", "/", ">">>,
      <<"<", "a", "/", ">", CR, LF>> }

TreeOptionsObjects ==
    { Undefined,
      Some([insertSpaces |-> "true", tabSize |-> Num(2)]),
      Some([insertSpaces |-> "false", tabSize |-> Num(DefaultTabSize)]) }

InitTree ==
    /\ variant = "sync"
    /\ _document \in TreeDocuments
    /\ range = Undefined
    /\ options \in TreeOptionsObjects
    /\ _options = Undefined
    /\ _lineBreakCharacter = Undefined
    /\ pc = "idle"
    /\ parsedXml = Undefined
    /\ edits = Undefined
    /\ outcome = "none"
    /\ messages = 0
    /\ pass = 0
    /\ tree \in {Some(v) : v \in ParsedValues}
    /\ rendered = <<>>
    /\ reparsed = Undefined

NextTree == Construct \/ RenderTree \/ ParseRendered

SpecTree == InitTree /\ [][NextTree]_vars

\* The renderer applied to one element with a drawn attribute object.
AttributeNames == {<<"k">>, <<"j">>, <<"2">>, <<"1", "0">>}

AttributeValues == {<<>>, <<"1">>, <<"x", SPACE, "y">>}

\* the attribute objects of n properties, in insertion order
RECURSIVE AttributeObjectsOfSize(_)
AttributeObjectsOfSize(n) ==
    IF n = 0 THEN {<<>>}
    ELSE {Append(o, <<name, value>>) :
             o \in AttributeObjectsOfSize(n - 1),
             name \in AttributeNames, value \in AttributeValues}

AttributeObjects ==
    {o \in UNION {AttributeObjectsOfSize(n) : n \in 0..MaxAttributes} :
        \A i, j \in 1..Len(o) : o[i][1] = o[j][1] => i = j}

AttributeTrees ==
    {Element(<<"a">>, o, <<>>, <<>>) : o \in AttributeObjects}
    \cup {[EmptyObject EXCEPT !.name = Some(<<"a">>)]}

InitAttr ==
    /\ variant = "sync"
    /\ _document \in TreeDocuments
    /\ range = Undefined
    /\ options \in TreeOptionsObjects
    /\ _options = Undefined
    /\ _lineBreakCharacter = Undefined
    /\ pc = "idle"
    /\ parsedXml = Undefined
    /\ edits = Undefined
    /\ outcome = "none"
    /\ messages = 0
    /\ pass = 0
    /\ tree \in {Some(v) : v \in AttributeTrees}
    /\ rendered = <<>>
    /\ reparsed = Undefined

NextAttr == Construct \/ RenderTree

SpecAttr == InitAttr /\ [][NextAttr]_vars

----------------------------------------------------------------------------
(* Vocabulary of the claims, stated on the text and on the tree             *)

EndsWith(s, p) == Len(s) >= Len(p) /\ SubSeq(s, Len(s) - Len(p) + 1, Len(s)) = p

Occurs(p, s) ==
    \E i \in 0..(Len(s) - Len(p)) : SubSeq(s, i + 1, i + Len(p)) = p

ContentText(n) == IF n.content = Undefined THEN <<>> ELSE n.content[1]

ChildList(n) == IF n.children = Undefined THEN <<>> ELSE n.children[1]

\* the element nodes of the tree under n, each with its indent depth
RECURSIVE NodesAt(_, _)
NodesAt(n, d) ==
    {<<n, d>>} \cup UNION {NodesAt(ChildList(n)[i], d + 1) : i \in 1..Len(ChildList(n))}

RootElement(v) == IF v.root # Undefined THEN v.root[1] ELSE v

\* <name followed by one space and name="value" for each attribute
RECURSIVE SpacedPairs(_)
SpacedPairs(pairs) ==
    IF pairs = <<>> THEN <<>>
    ELSE <<SPACE>> \o pairs[1][1] \o <<"=">> \o <<"\"">> \o pairs[1][2] \o <<"\"">>
         \o SpacedPairs(Tail(pairs))

OpeningOf(n) == <<"<">> \o n.name[1] \o SpacedPairs(n.attributes[1])

ClosingOf(n) == <<"<", "/">> \o n.name[1] \o <<">">>

\* d indent units
Indent(unit, d) == [i \in 1..(d * Len(unit)) |-> unit[((i - 1) % Len(unit)) + 1]]

TreeRendered == pc \in {"rendered", "reparsed"}

----------------------------------------------------------------------------
\* C1: every element node is rendered as `<name attrs />`, without a closing
\* tag, exactly when it has neither non-empty content nor a non-empty children
\* list; every other node is rendered with `<name attrs>` in front and the
\* matching `</name>` at the end.
C1_SelfClosingIffEmpty ==
    TreeRendered =>
        \A nd \in NodesAt(RootElement(tree[1]), 0) :
            LET n == nd[1]
                out == _formatParsedXml(This, n, nd[2])
                empty == ContentText(n) = <<>> /\ ChildList(n) = <<>>
            IN  /\ Occurs(out, rendered)
                /\ (out = OpeningOf(n) \o <<SPACE, "/", ">">>) <=> empty
                /\ empty => ~Occurs(ClosingOf(n), out)
                /\ ~empty => /\ StartsWith(out, OpeningOf(n) \o <<">">>)
                             /\ EndsWith(out, ClosingOf(n))

\* a tree holding an empty node, a content-only node and a node with children
C1_Witness ==
    /\ TreeRendered
    /\ \E nd \in NodesAt(RootElement(tree[1]), 0) :
          ContentText(nd[1]) = <<>> /\ ChildList(nd[1]) = <<>>
    /\ \E nd \in NodesAt(RootElement(tree[1]), 0) :
          ContentText(nd[1]) # <<>> /\ ChildList(nd[1]) = <<>>
    /\ ChildList(RootElement(tree[1])) # <<>>

\* the line break followed by d indent units and the rendering, per child
RECURSIVE ChildLines(_, _, _, _)
ChildLines(kids, d, break, unit) ==
    IF kids = <<>> THEN <<>>
    ELSE break \o Indent(unit, d) \o _formatParsedXml(This, kids[1], d)
         \o ChildLines(Tail(kids), d, break, unit)

\* C2: a node with a non-empty children list, rendered at depth d, is
\* `<name attrs>`, then for each child in order one line break, d+1 indent
\* units and the child's rendering at depth d+1, then one line break, d indent
\* units and `</name>` (the content, if any, is not rendered).
C2_ChildrenOneUnitDeeper ==
    TreeRendered =>
        \A nd \in NodesAt(RootElement(tree[1]), 0) :
            LET n == nd[1]
                d == nd[2]
                break == _lineBreakCharacter[1]
                unit == _getIndentCharacters(This)
            IN  ChildList(n) # <<>> =>
                    /\ break \in {<<LF>>, <<CR, LF>>}
                    /\ unit \in {<<TAB>>, Indent(<<SPACE>>, _options[1].tabSize.val)}
                    /\ _formatParsedXml(This, n, d) =
                          OpeningOf(n) \o <<">">>
                          \o ChildLines(ChildList(n), d + 1, break, unit)
                          \o break \o Indent(unit, d) \o ClosingOf(n)
                    /\ Occurs(_formatParsedXml(This, n, d), rendered)

\* a rendered tree three levels deep, so that a parent is itself indented
C2_Witness ==
    /\ TreeRendered
    /\ \E nd \in NodesAt(RootElement(tree[1]), 0) :
          nd[2] = 1 /\ ChildList(nd[1]) # <<>>
    /\ Len(rendered) > 0

----------------------------------------------------------------------------
\* occurrences of \r\n, and of \n not preceded by \r, in text
CrlfOccurrences(text) ==
    Cardinality({i \in 2..Len(text) : text[i] = LF /\ text[i - 1] = CR})

LfOnlyOccurrences(text) ==
    Cardinality({i \in 1..Len(text) : text[i] = LF /\ (i = 1 \/ text[i - 1] # CR)})

\* C3: the line break the formatter uses is \r\n exactly when the \r\n
\* occurrences of the document text strictly outnumber its \n occurrences not
\* preceded by \r, and \n otherwise.
C3_BreakOfTheMajority ==
    (pc = "done" /\ IsDefined(_lineBreakCharacter)) =>
        _lineBreakCharacter[1] =
            IF CrlfOccurrences(_document) > LfOnlyOccurrences(_document)
            THEN <<CR, LF>> ELSE <<LF>>

\* C4: with insertSpaces = true and tabSize = n >= 1 in the options handed to
\* the constructor the indent unit is n spaces; with insertSpaces = false it
\* is one tab.
C4_IndentUnitFollowsOptions ==
    [][(pc = "idle" /\ IsDefined(options)) =>
          LET o == options[1]
          IN  /\ (o.insertSpaces = "true" /\ o.tabSize.type = "number"
                  /\ ~o.tabSize.nan /\ o.tabSize.val >= 1)
                     => _getIndentCharacters(This)' = [i \in 1..o.tabSize.val |-> SPACE]
              /\ o.insertSpaces = "false" => _getIndentCharacters(This)' = <<TAB>>]_vars

WellFormedOptions(o) ==
    /\ o.insertSpaces \in {"true", "false"}
    /\ o.tabSize.type = "number" /\ ~o.tabSize.nan /\ o.tabSize.val >= 1

\* C5: after construction the configuration is insertSpaces = false and
\* tabSize = 4 if the options object is absent or its tabSize is not a number
\* or is NaN; a well-formed configuration is kept as given.
C5_OptionsNormalized ==
    [][pc = "idle" =>
          /\ (~IsDefined(options)
              \/ (IsDefined(options)
                  /\ (options[1].tabSize.type # "number" \/ options[1].tabSize.nan)))
                 => _options' = Some([insertSpaces |-> "false", tabSize |-> Num(4)])
          /\ (IsDefined(options) /\ WellFormedOptions(options[1]))
                 => _options' = options]_vars

\* names, attribute pairs, content and children of a parsed value, and the
\* attribute pairs of its declaration
RECURSIVE Structure(_)
Structure(n) ==
    [name |-> n.name, attributes |-> n.attributes[1], content |-> ContentText(n),
     children |-> [i \in 1..Len(ChildList(n)) |-> Structure(ChildList(n)[i])]]

DocumentStructure(v) ==
    [declaration |-> IF v.declaration # Undefined
                     THEN v.declaration[1].attributes ELSE Undefined,
     root |-> IF v.root # Undefined THEN Some(Structure(v.root[1]))
              ELSE IF v.name # Undefined THEN Some(Structure(v)) ELSE Undefined]

\* C6: parsing the rendering of a generated tree gives back a tree of the
\* same structure.
C6_RoundTrip ==
    pc = "reparsed" => DocumentStructure(reparsed[1]) = DocumentStructure(tree[1])

\* C7: formatting the formatter's own output again, with the same options
\* object, returns that very text.
C7_Idempotent ==
    (pc = "done" /\ variant = "sync" /\ pass >= 1 /\ IsDefined(edits)) =>
        edits[1][1].newText = _document

\* C8: when the text gives no usable tree (the parser yields neither a
\* declaration nor a root) or rendering fails, format returns no edit.
C8_NoEditOnFailure ==
    (pc = "done" /\ variant = "sync" /\ outcome = "returned") =>
        ((messages > 0
          \/ (parsedXml[1].declaration = Undefined /\ parsedXml[1].root = Undefined))
            => edits = Undefined)

\* C9: a request that fails gives no edit, shows exactly one error message,
\* and lets no exception out of format.
C9_FailuresCaught ==
    (pc = "done" /\ ~IsDefined(edits)) => (outcome # "threw" /\ messages = 1)

----------------------------------------------------------------------------
\* C11: the attribute string of an attribute object is, for each attribute in
\* insertion order, one space and name="value" with the value copied as it
\* is; it is empty for an empty or missing object and does not end with a
\* space, and the tag it is written into holds no line break.
C11_AttributesInInsertionOrder ==
    TreeRendered =>
        LET attrObject == tree[1].attributes
            pairs == IF attrObject = Undefined THEN <<>> ELSE attrObject[1]
            out == _parsedAttrObjectToAtrrString(attrObject)
        IN  /\ out = SpacedPairs(pairs)
            /\ pairs = <<>> => out = <<>>
            /\ ~EndsWith(out, <<SPACE>>)
            /\ rendered = <<"<">> \o tree[1].name[1] \o out \o <<SPACE, "/", ">">>
            /\ ~Occurs(<<LF>>, rendered) /\ ~Occurs(<<CR>>, rendered)

----------------------------------------------------------------------------
\* the formatted rendering of a text, with the formatter's line break and
\* indent unit
FormattedText(text) == _formatParsedXml(This, parse(text), 0)

\* C12: a successful format returns exactly one edit; its newText is the
\* formatted rendering of the whole document text; its range is the requested
\* range when one is given, and otherwise starts at line 0 character 0 and
\* reaches the end of the last line; replacing the range by newText leaves the
\* text around the span as it was and puts the formatted text of the span in
\* its place.
C12_EditReplacesSpan ==
    (pc = "done" /\ IsDefined(edits)) =>
        LET e == edits[1][1]
            from == offsetAt(_document, e.range.startLine, e.range.startCharacter)
            to == offsetAt(_document, e.range.endLine, e.range.endCharacter)
        IN  /\ Len(edits[1]) = 1
            /\ e.newText = FormattedText(_document)
            /\ IsDefined(range) => e.range = range[1]
            /\ ~IsDefined(range) =>
                   /\ e.range.startLine = 0 /\ e.range.startCharacter = 0
                   /\ from = 0 /\ to = Len(_document)
            /\ ApplyEdit(_document, e) =
                   SubSeq(_document, 1, from)
                   \o FormattedText(getText(_document, e.range))
                   \o SubSeq(_document, to + 1, Len(_document))

----------------------------------------------------------------------------
\* C13: constructing a formatter and calling format leave every field of the
\* options object the caller supplied as it was, so a later request handed
\* the same object sees the configuration the caller supplied.
C13_OptionsUntouched ==
    [][IsDefined(options) =>
          /\ IsDefined(options')
          /\ options'[1].insertSpaces = options[1].insertSpaces
          /\ options'[1].tabSize = options[1].tabSize]_vars

====
